---- MODULE Spec2Model ----
(***************************************************************************)
(* H(curl-div) finite elements of src/fem/hcurldivfe.hpp: the volume       *)
(* elements HCurlDivFE<ET_TRIG>, HCurlDivFE<ET_TET> and the surface        *)
(* elements HCurlDivSurfaceFE<ET_SEGM>, HCurlDivSurfaceFE<ET_TRIG>.        *)
(*                                                                         *)
(* An element is an object with the fields order_facet, order_inner, plus, *)
(* vnums, ndof and order.  ComputeNDof derives ndof and order; T_CalcShape *)
(* hands shape objects (building blocks) to a callback, one per row.       *)
(***************************************************************************)
EXTENDS Integers, Sequences, FiniteSets

\* ------------------------------------------------------------------ bounds
\* Largest order of the order sweep of ComputeNDof.
MaxOrder == 2
\* Largest order given to an element that is evaluated.
MaxEvalOrder == 1
\* Largest integer coordinate of an evaluation point.
MaxCoord == 1
\* Largest global vertex number given to SetVertexNumbers.
MaxVnum == 3

\* ------------------------------------------------------------- element kinds
VolumeKinds == {"ET_TRIG", "ET_TET"}
SurfaceKinds == {"SURF_SEGM", "SURF_TRIG"}
Kinds == VolumeKinds \cup SurfaceKinds

\* An object of the class template itself, T_HCurlDivFE<ET> or
\* T_HCurlDivSurfaceFE<ET>, without the overrides of HCurlDivFE<ET> and
\* HCurlDivSurfaceFE<ET>.
BaseVolumeKinds == {"T_HCurlDivFE<ET_TRIG>", "T_HCurlDivFE<ET_TET>"}
BaseSurfaceKinds == {"T_HCurlDivSurfaceFE<ET_SEGM>", "T_HCurlDivSurfaceFE<ET_TRIG>"}
BaseKinds == BaseVolumeKinds \cup BaseSurfaceKinds

\* ET_trait<ET>::N_FACET of the volume kinds; the surface classes hold no
\* facet orders.
N_FACET(k) ==
  CASE k \in {"ET_TRIG", "T_HCurlDivFE<ET_TRIG>"} -> 3
    [] k \in {"ET_TET", "T_HCurlDivFE<ET_TET>"} -> 4
    [] OTHER -> 0

\* ET_trait<ET>::N_VERTEX.
N_VERTEX(k) ==
  CASE k \in {"ET_TRIG", "T_HCurlDivFE<ET_TRIG>"} -> 3
    [] k \in {"ET_TET", "T_HCurlDivFE<ET_TET>"} -> 4
    [] k \in {"SURF_SEGM", "T_HCurlDivSurfaceFE<ET_SEGM>"} -> 2
    [] k \in {"SURF_TRIG", "T_HCurlDivSurfaceFE<ET_TRIG>"} -> 3

\* ET_trait<ET>::DIM.
DIM(k) ==
  CASE k = "ET_TRIG" -> 2 [] k = "ET_TET" -> 3 [] k = "SURF_SEGM" -> 1
    [] k = "SURF_TRIG" -> 2

max2(a, b) == IF a > b THEN a ELSE b

\* C++ integer division: the quotient truncated toward zero.
TruncDiv(a, b) == IF a >= 0 THEN a \div b ELSE -((-a) \div b)

\* Arrays of the code are 0-based; a sequence s holds index i at s[i+1].
At(s, i) == s[i + 1]

VARIABLES
  et,           \* element kind (the class instantiated)
  order_facet,  \* int order_facet[N_FACET]
  order_inner,  \* int order_inner
  plus,         \* bool plus
  vnums,        \* VertexOrientedFE<ET>::vnums
  ndof,         \* FiniteElement::ndof
  order,        \* FiniteElement::order
  check_range,  \* whether the build range-checks array accesses
  pc,           \* the caller: "setup", "ready" (ComputeNDof done), "done"
  ip,           \* the point of the last evaluation call
  rows,         \* the shape objects the last evaluation handed to its callback
  what,         \* what the callback stored per row: "Shape" or "DivShape"
  err,          \* the exception the last call raised, "none" if none
  cout,         \* the lines the last ComputeNDof call wrote to the standard output
  thread        \* the calls running concurrently on the element, per thread

vars ==
  <<et, order_facet, order_inner, plus, vnums, ndof, order, check_range,
    pc, ip, rows, what, err, cout, thread>>

elem == <<et, order_facet, order_inner, plus, vnums, ndof, order>>
call == <<ip, rows, what, err, cout, thread>>

\* The threads that may call into one element.
Threads == {1, 2}

\* The value of the field ndof.  No constructor writes it: until ComputeNDof
\* (or a stray store) does, it holds whatever the memory held, which may be
\* any int and is different from build to build and run to run.  The model
\* does not pick one: the field is Indeterminate until a store gives it the
\* value n, Written(n).
Indeterminate == [written |-> FALSE]
Written(n) == [written |-> TRUE, value |-> n]

\* ---------------------------------------------------------- construction
\* VertexOrientedFE's constructor numbers the vertices 0, 1, ...
InitVnums(k) == [i \in 1..N_VERTEX(k) |-> i - 1]

\* T_HCurlDivFE(aorder, _plus): every facet order and the inner order are
\* aorder, order is aorder; ndof is not written.
T_HCurlDivFE(k, aorder, _plus) ==
  /\ et = k
  /\ plus = _plus
  /\ order = aorder
  /\ order_facet = [i \in 1..N_FACET(k) |-> aorder]
  /\ order_inner = aorder
  /\ vnums = InitVnums(k)
  /\ ndof = Indeterminate

\* T_HCurlDivSurfaceFE(aorder): no facet orders and no plus flag.
T_HCurlDivSurfaceFE(k, aorder) ==
  /\ et = k
  /\ plus = FALSE
  /\ order = aorder
  /\ order_facet = <<>>
  /\ order_inner = aorder
  /\ vnums = InitVnums(k)
  /\ ndof = Indeterminate

NoCall ==
  /\ ip = <<>>
  /\ rows = <<>>
  /\ what = "none"
  /\ err = "none"
  /\ cout = <<>>
  /\ thread = [t \in Threads |-> [op |-> "idle"]]

Construct(orders) ==
  \/ \E k \in VolumeKinds, aorder \in orders, _plus \in BOOLEAN :
       T_HCurlDivFE(k, aorder, _plus)
  \/ \E k \in SurfaceKinds, aorder \in orders :
       T_HCurlDivSurfaceFE(k, aorder)

\* ---------------------------------------------------------------- setters
\* The bool an int store leaves in plus: the store's low byte is the byte
\* of plus (the other three fall into the padding that ends the object).  A
\* byte 0 is false and 1 is true; any other byte is no value of a bool, and
\* what a later `if (plus)` takes is not defined.
StoredBool(o) ==
  LET b == o % 256
  IN IF b = 0 THEN {FALSE} ELSE IF b = 1 THEN {TRUE} ELSE BOOLEAN

\* The field an access order_facet[nr] reaches.  The members are laid out in
\* declaration order: order_facet[N_FACET], order_inner, plus; before them
\* lie the base class subobjects, FiniteElement (ndof, order) and then
\* VertexOrientedFE<ET> (vnums[N_VERTEX]).  An nr beyond these reaches the
\* vtable pointer or memory outside the object, which are no fields of the
\* model.
FieldAt(k, nr) ==
  CASE nr \in 0..(N_FACET(k) - 1) -> "order_facet"
    [] nr = N_FACET(k) -> "order_inner"
    [] nr = N_FACET(k) + 1 -> "plus"
    [] nr \in (0 - N_VERTEX(k))..(0 - 1) -> "vnums"
    [] nr = (0 - N_VERTEX(k)) - 1 -> "order"
    [] nr = (0 - N_VERTEX(k)) - 2 -> "ndof"
    [] OTHER -> "none"

\* SetOrderFacet(nr, order) { order_facet[nr] = order; }  nr is not checked.
\* With nr outside 0..N_FACET-1 the store leaves the array, which is
\* undefined behaviour: it lands in the field lying there, or the build
\* drops it.
SetOrderFacet(nr, o) ==
  LET f == FieldAt(et, nr)
  IN /\ et \in VolumeKinds \cup BaseVolumeKinds
     /\ f # "none"
     /\ \E lands \in (IF f = "order_facet" THEN {TRUE} ELSE BOOLEAN) :
          /\ order_facet' = IF f = "order_facet"
                              THEN [order_facet EXCEPT ![nr + 1] = o]
                              ELSE order_facet
          /\ order_inner' = IF lands /\ f = "order_inner" THEN o ELSE order_inner
          /\ plus' \in (IF lands /\ f = "plus" THEN StoredBool(o) ELSE {plus})
          /\ vnums' = IF lands /\ f = "vnums"
                        THEN [vnums EXCEPT ![N_VERTEX(et) + nr + 1] = o]
                        ELSE vnums
          /\ order' = IF lands /\ f = "order" THEN o ELSE order
          /\ ndof' = IF lands /\ f = "ndof" THEN Written(o) ELSE ndof
     /\ pc' = "setup"
     /\ UNCHANGED <<et, check_range>>
     /\ UNCHANGED call

\* SetOrderInner(order) { order_inner = order; }
SetOrderInner(o) ==
  /\ order_inner' = o
  /\ pc' = "setup"
  /\ UNCHANGED <<et, order_facet, plus, vnums, ndof, order, check_range>>
  /\ UNCHANGED call

\* VertexOrientedFE<ET>::SetVertexNumbers(vn): vnums[i] = vn[i].
SetVertexNumbers(vn) ==
  /\ Len(vn) = N_VERTEX(et)
  /\ vnums' = vn
  /\ UNCHANGED <<et, order_facet, order_inner, plus, ndof, order, check_range, pc>>
  /\ UNCHANGED call

\* --------------------------------------------------------------- ComputeNDof
\* The facet loop of ComputeNDof: ndof and order after facets 0..n-1, each
\* facet adding perfacet(order_facet[i]) to ndof.
RECURSIVE FacetLoop(_, _, _)
FacetLoop(of, n, i) ==
  IF i = 0 THEN [ndof |-> 0, order |-> 0]
  ELSE LET p == FacetLoop(of, n, i - 1)
           o == At(of, i - 1)
       IN [ndof |-> p.ndof + (IF n = 3 THEN o + 1 ELSE (o + 1) * (o + 2)),
           order |-> max2(p.order, o)]

\* ComputeNDof of the triangle without the enrichment rows in ndof.
ComputeNDof_TRIG_noplusrows(of, oi, pl) ==
  LET f == FacetLoop(of, 3, 3)
      ninner == oi + 1 + 2 * ((oi + 1) * oi)
      o1 == max2(f.order, oi)
  IN IF pl
       THEN [ndof |-> f.ndof + ninner, order |-> o1 + 1]
       ELSE [ndof |-> f.ndof + ninner, order |-> o1]

\* ComputeNDof of the triangle incrementing the interior order, not the
\* overall order.
ComputeNDof_TRIG_innerinc(of, oi, pl) ==
  LET f == FacetLoop(of, 3, 3)
      ninner == oi + 1 + 2 * ((oi + 1) * oi)
  IN IF pl
       THEN [ndof |-> f.ndof + (ninner + 2 * oi), order |-> max2(f.order, oi + 1)]
       ELSE [ndof |-> f.ndof + ninner, order |-> max2(f.order, oi)]

\* HCurlDivFE<ET_TRIG>::ComputeNDof
ComputeNDof_TRIG(of, oi, pl) ==
  LET f == FacetLoop(of, 3, 3)
      ninner == oi + 1 + 2 * ((oi + 1) * oi)
      o1 == max2(f.order, oi)
  IN IF pl
       THEN [ndof |-> f.ndof + (ninner + 2 * oi), order |-> o1 + 1]
       ELSE [ndof |-> f.ndof + ninner, order |-> o1]

\* ComputeNDof of the tetrahedron looping over facets 0, 1, 2 only.
ComputeNDof_TET_3facets(of, oi, pl) ==
  LET f == FacetLoop(of, 4, 3)
      ninner ==
        TruncDiv((oi + 1) * (oi + 2) * (oi + 3) + 8 * ((oi + 2) * (oi + 1) * oi), 6)
  IN [ndof |-> f.ndof + ninner, order |-> max2(f.order, oi)]

\* HCurlDivFE<ET_TET>::ComputeNDof.  ninner is computed in double precision,
\*   (oi+1)(oi+2)(oi+3)/6.0 + 8.0/6.0*((oi+2)(oi+1)oi),
\* and truncated to int; both products are multiples of 6, so the sum is the
\* integer below.  plus is not read.
ComputeNDof_TET(of, oi, pl) ==
  LET f == FacetLoop(of, 4, 4)
      ninner ==
        TruncDiv((oi + 1) * (oi + 2) * (oi + 3) + 8 * ((oi + 2) * (oi + 1) * oi), 6)
  IN [ndof |-> f.ndof + ninner, order |-> max2(f.order, oi)]

\* HCurlDivSurfaceFE<ET_SEGM>::ComputeNDof
ComputeNDof_SEGM(oi) == [ndof |-> 0 + (oi + 1), order |-> max2(0, oi)]

\* HCurlDivSurfaceFE<ET_TRIG>::ComputeNDof
ComputeNDof_SURFTRIG(oi) ==
  [ndof |-> 0 + (oi + 1) * (oi + 2), order |-> max2(0, oi)]

\* The virtual call: the specialization of the element's class.
ComputeNDofOf(k, of, oi, pl) ==
  CASE k = "ET_TRIG" -> ComputeNDof_TRIG(of, oi, pl)
    [] k = "ET_TET" -> ComputeNDof_TET(of, oi, pl)
    [] k = "SURF_SEGM" -> ComputeNDof_SEGM(oi)
    [] k = "SURF_TRIG" -> ComputeNDof_SURFTRIG(oi)

\* The virtual ComputeNDof of the element's class: order = 0; ndof = 0; and
\* then the sums and maxima over the order specification.
ComputeNDof ==
  LET r == ComputeNDofOf(et, order_facet, order_inner, plus)
  IN /\ ndof' = Written(r.ndof)
     /\ order' = r.order
     /\ pc' = "ready"
     /\ UNCHANGED <<et, order_facet, order_inner, plus, vnums, check_range>>
     /\ UNCHANGED call

\* ----------------------------------------------------------------- topology
\* ElementTopology::GetEdges(ET_TRIG): the local vertices of edge 0, 1, 2.
trig_edges == << <<2, 0>>, <<1, 2>>, <<0, 1>> >>

\* ElementTopology::GetFaces(ET_TET): the local vertices of face 0..3.
tet_faces == << <<3, 1, 2>>, <<3, 2, 0>>, <<3, 0, 1>>, <<0, 2, 1>> >>

\* if (vnums[t[a]] > vnums[t[b]]) swap (t[a], t[b]);
SwapIfGreater(vn, t, a, b) ==
  IF At(vn, At(t, a)) > At(vn, At(t, b))
    THEN [t EXCEPT ![a + 1] = At(t, b), ![b + 1] = At(t, a)]
    ELSE t

\* Triangle edge loop: es, ee of edge i after the swap.
EdgeSorted(vn, i) == SwapIfGreater(vn, At(trig_edges, i), 0, 1)

\* The face loop with the first two of its three swaps.
FaceSorted_2swaps(vn, fa) ==
  LET f0 == At(tet_faces, fa)
      f1 == SwapIfGreater(vn, f0, 0, 1)
  IN SwapIfGreater(vn, f1, 1, 2)

\* Tetrahedron face loop: fav of face fa after the three swaps.
FaceSorted(vn, fa) ==
  LET f0 == At(tet_faces, fa)
      f1 == SwapIfGreater(vn, f0, 0, 1)
      f2 == SwapIfGreater(vn, f1, 1, 2)
  IN SwapIfGreater(vn, f2, 0, 1)

\* Surface segment: es, ee after the swap.
SurfSegmSorted(vn) == SwapIfGreater(vn, <<0, 1>>, 0, 1)

\* Surface triangle: es, ee, et after the three swaps.
SurfTrigSorted(vn) ==
  LET t1 == SwapIfGreater(vn, <<0, 1, 2>>, 0, 1)
      t2 == SwapIfGreater(vn, t1, 1, 2)
  IN SwapIfGreater(vn, t2, 0, 2)

\* ------------------------------------------------------------ shape objects
\* A scalar factor of a shape object: entry i of the values evaluator f
\* produced when called with target degree n on the barycentric coordinates
\* of the local vertices `on`, multiplied by the coordinates of the local
\* vertices `mul`.  ok is FALSE for an entry read beyond the array's size
\* (never written by the evaluator).  a is the alpha the shared Jacobi
\* object jac1 had when the nested recursion of the tetrahedron started.
Pol(f, n, i, on, mul) ==
  [f |-> f, n |-> n, i |-> i, on |-> on, mul |-> mul, a |-> 0, ok |-> TRUE]

\* A shape object handed to the callback: the building block class, the
\* local vertices of its barycentric arguments in constructor order, and its
\* scalar arguments in constructor order.
Obj(blk, lam, sc) == [blk |-> blk, lam |-> lam, sc |-> sc]

\* What T_CalcShape does, in order: a callback call or a throw.
EvRow(r) == [ev |-> "row", row |-> r, msg |-> ""]
EvThrow(m) == [ev |-> "throw", row |-> Obj("", <<>>, <<>>), msg |-> m]

RECURSIVE Flatten(_)
Flatten(ss) == IF ss = <<>> THEN <<>> ELSE Head(ss) \o Flatten(Tail(ss))

\* The events up to the first throw.
UntilThrow(evs) ==
  LET throws == {k \in 1..Len(evs) : evs[k].ev = "throw"}
      last == IF throws = {} THEN Len(evs)
              ELSE CHOOSE k \in throws : \A j \in throws : k <= j
  IN SubSeq(evs, 1, last)

\* The outcome of an evaluation: the objects handed to the callback, row nr
\* at rows[nr+1] (ii starts at 0 and every callback call is shape[ii++]),
\* and the exception that ended it.
Outcome(evs) ==
  LET cut == UntilThrow(evs)
      n == Len(cut)
      thrown == n > 0 /\ cut[n].ev = "throw"
      nrows == IF thrown THEN n - 1 ELSE n
  IN [rows |-> [k \in 1..nrows |-> cut[k].row],
      err |-> IF thrown THEN cut[n].msg ELSE "none"]

\* The highest index an evaluator called with target degree n writes.
LastWritten(f, n) ==
  CASE f = "CalcTrigExt" -> n - 2
    [] f = "DubinerBasis3" -> ((n + 1) * (n + 2)) \div 2 - 1
    [] OTHER -> n

\* An evaluator filling an array of `size` entries: FlatArray::operator[]
\* throws in a range-checked build when the index is not below size.
FillArray(f, n, size, chk) ==
  IF chk /\ LastWritten(f, n) >= size
    THEN <<EvThrow("RangeException")>> ELSE <<>>

\* Reading entry l of an array of `size` entries into a shape object.
ReadArray(p, l, size) == [p EXCEPT !.ok = (l < size)]

\* ---------------------------------------------- HCurlDivFE<ET_TRIG>::T_CalcShape
maxorder_facet_TRIG(of) == max2(At(of, 0), max2(At(of, 1), At(of, 2)))

\* The edge loop: for edge i, one Sigma_gradv(le*ls*ha[l]) per l <=
\* order_facet[i], ha the scaled Legendre polynomials in (le-ls, le+ls).
TrigEdgeRows(of, vn, i) ==
  LET e == EdgeSorted(vn, i)
      es == At(e, 0)
      ee == At(e, 1)
      m == maxorder_facet_TRIG(of)
  IN [l1 \in 1..(At(of, i) + 1) |->
        EvRow(Obj("Sigma_gradv", <<>>,
          <<ReadArray(Pol("ScaledLegendre", m, <<l1 - 1>>, <<es, ee>>, <<ee, es>>),
                      l1 - 1, m + 1)>>))]

\* One pass of the type 1 / type 2 loops: u from CalcTrigExt on the vertices
\* uon, v from EvalMult on the vertex von; i, j >= 0, i + j <= oi - 1.
TrigInnerPass(oi, uon, von) ==
  Flatten([i1 \in 1..oi |->
    Flatten([j1 \in 1..(oi - (i1 - 1)) |->
      LET u == ReadArray(Pol("CalcTrigExt", oi + 3, <<i1 - 1>>, uon, <<>>),
                         i1 - 1, oi + 3)
          v == ReadArray(Pol("LegendreMult", oi + 1, <<j1 - 1>>, von, von),
                         j1 - 1, oi + 1)
      IN <<EvRow(Obj("Sigma_gradu_v", <<>>, <<u, v>>)),
           EvRow(Obj("Curlgraduv_graducurlv", <<>>, <<u, v>>))>>])])

\* Type 3 rows for i <= oi-1 only.
TrigType3Rows_short(oi) ==
  [i1 \in 1..oi |->
     EvRow(Obj("T_type4", <<1, 0>>,
       <<ReadArray(Pol("Legendre", oi, <<i1 - 1>>, <<2>>, <<>>), i1 - 1, oi + 1)>>))]

\* The type 3 rows: T_type4(le, ls, v[i]), v the Legendre polynomials in
\* 2*lt-1, i <= oi.
TrigType3Rows(oi) ==
  [i1 \in 1..(oi + 1) |->
     EvRow(Obj("T_type4", <<1, 0>>,
       <<ReadArray(Pol("Legendre", oi, <<i1 - 1>>, <<2>>, <<>>), i1 - 1, oi + 1)>>))]

\* A plus branch whose loop body throws after its two rows.
TrigPlusRows_throwlast(oi, pl) ==
  IF pl
    THEN Flatten([i1 \in 1..oi |->
      LET bubble == Pol("CalcTrigExt*LegendreMult", oi, <<i1 - 1, oi - 1 - (i1 - 1)>>,
                        <<1, 0, 2>>, <<>>)
      IN <<EvRow(Obj("T_sigma_u_grad_v:x", <<>>, <<bubble>>)),
           EvRow(Obj("T_sigma_u_grad_v:y", <<>>, <<bubble>>)),
           EvThrow("not working yet!")>>])
    ELSE <<>>

\* A plus branch that throws on entry, before its loop.
TrigPlusRows_onentry(oi, pl) ==
  IF pl THEN <<EvThrow("not working yet!")>> ELSE <<>>

\* The plus branch: every pass of its loop throws before it emits.
TrigPlusRows(oi, pl) ==
  IF pl
    THEN Flatten([i1 \in 1..oi |->
      LET bubble == Pol("CalcTrigExt*LegendreMult", oi, <<i1 - 1, oi - 1 - (i1 - 1)>>,
                        <<1, 0, 2>>, <<>>)
      IN <<EvThrow("not working yet!"),
           EvRow(Obj("T_sigma_u_grad_v:x", <<>>, <<bubble>>)),
           EvRow(Obj("T_sigma_u_grad_v:y", <<>>, <<bubble>>))>>])
    ELSE <<>>

\* The triangle with one pass of the type 1 / type 2 loops.
T_CalcShape_TRIG_onepass(of, oi, pl, vn, chk) ==
  Outcome(
    TrigEdgeRows(of, vn, 0) \o TrigEdgeRows(of, vn, 1) \o TrigEdgeRows(of, vn, 2)
    \o FillArray("CalcTrigExt", oi + 3, oi + 3, chk)
    \o FillArray("LegendreMult", oi + 1, oi + 1, chk)
    \o TrigInnerPass(oi, <<1, 2>>, <<0>>)
    \o FillArray("Legendre", oi, oi + 1, chk)
    \o TrigType3Rows(oi)
    \o FillArray("CalcTrigExt", oi + 3, oi + 3, chk)
    \o FillArray("LegendreMult", oi + 1, oi + 1, chk)
    \o TrigPlusRows(oi, pl))

\* The triangle with the type 3 rows emitted before the type 1 / type 2
\* passes.
T_CalcShape_TRIG_type3first(of, oi, pl, vn, chk) ==
  Outcome(
    TrigEdgeRows(of, vn, 0) \o TrigEdgeRows(of, vn, 1) \o TrigEdgeRows(of, vn, 2)
    \o FillArray("Legendre", oi, oi + 1, chk)
    \o TrigType3Rows(oi)
    \o FillArray("CalcTrigExt", oi + 3, oi + 3, chk)
    \o FillArray("LegendreMult", oi + 1, oi + 1, chk)
    \o TrigInnerPass(oi, <<1, 2>>, <<0>>)
    \o FillArray("CalcTrigExt", oi + 3, oi + 3, chk)
    \o FillArray("LegendreMult", oi + 1, oi + 1, chk)
    \o TrigInnerPass(oi, <<1, 0>>, <<2>>)
    \o FillArray("CalcTrigExt", oi + 3, oi + 3, chk)
    \o FillArray("LegendreMult", oi + 1, oi + 1, chk)
    \o TrigPlusRows(oi, pl))

T_CalcShape_TRIG(of, oi, pl, vn, chk) ==
  Outcome(
    TrigEdgeRows(of, vn, 0) \o TrigEdgeRows(of, vn, 1) \o TrigEdgeRows(of, vn, 2)
    \o FillArray("CalcTrigExt", oi + 3, oi + 3, chk)
    \o FillArray("LegendreMult", oi + 1, oi + 1, chk)
    \o TrigInnerPass(oi, <<1, 2>>, <<0>>)
    \o FillArray("CalcTrigExt", oi + 3, oi + 3, chk)
    \o FillArray("LegendreMult", oi + 1, oi + 1, chk)
    \o TrigInnerPass(oi, <<1, 0>>, <<2>>)
    \o FillArray("Legendre", oi, oi + 1, chk)
    \o TrigType3Rows(oi)
    \o FillArray("CalcTrigExt", oi + 3, oi + 3, chk)
    \o FillArray("LegendreMult", oi + 1, oi + 1, chk)
    \o TrigPlusRows(oi, pl))

\* ----------------------------------------------- HCurlDivFE<ET_TET>::T_CalcShape
\* maxorder_facet of the tetrahedron: the maximum over facets 0, 1, 2.
maxorder_facet_TET(of) == max2(At(of, 0), max2(At(of, 1), At(of, 2)))

\* The number of polynomials of two variables up to degree p,
\* (p+1)*(p+2)/2.0.
NPol2(p) == ((p + 1) * (p + 2)) \div 2

\* The face loop: for face fa, two T_Dl1_o_Dl2xDl3_v per l below
\* NPol2(order_facet[fa]), ha the Dubiner basis of degree maxorder_facet in
\* (ls, le).  ha holds NPol2(maxorder_facet) entries.
TetFaceRows(of, vn, fa, chk) ==
  LET fav == FaceSorted(vn, fa)
      s == At(fav, 0)
      e == At(fav, 1)
      t == At(fav, 2)
      m == maxorder_facet_TET(of)
      size == NPol2(m)
  IN FillArray("DubinerBasis3", m, size, chk)
     \o Flatten([l1 \in 1..NPol2(At(of, fa)) |->
          LET ha == ReadArray(Pol("DubinerBasis3", m, <<l1 - 1>>, <<s, e>>, <<>>),
                              l1 - 1, size)
          IN IF chk /\ ~ha.ok
               THEN <<EvThrow("RangeException")>>
               ELSE <<EvRow(Obj("T_Dl1_o_Dl2xDl3_v", <<e, s, t>>, <<ha>>)),
                      EvRow(Obj("T_Dl1_o_Dl2xDl3_v", <<s, t, e>>, <<ha>>))>>])

\* The nested recursion of the interior rows: leg.EvalScaled1Assign(n, ...)
\* calls back for k = 0..n, jac1.EvalScaledMult1Assign(n-k, ...) for
\* j = 0..n-k, jac2.EvalMult(n-k-j, ...) for i = 0..n-k-j; the result is
\* the sequence of the values val the innermost callback receives.  a1 is
\* jac1's alpha at the first callback.
TetNested(n, a1) ==
  Flatten([k1 \in 1..(n + 1) |->
    Flatten([j1 \in 1..(n - (k1 - 1) + 1) |->
      [i1 \in 1..(n - (k1 - 1) - (j1 - 1) + 1) |->
        [Pol("Leg*Jac1*Jac2", n, <<k1 - 1, j1 - 1, i1 - 1>>,
             <<0, 1, 2, 3>>, <<>>) EXCEPT !.a = a1]]])])

\* val times the barycentric coordinate of local vertex m.
Times(val, m) == [val EXCEPT !.mul = <<m>>]

TetType1(val) == <<EvRow(Obj("T_Id_v", <<>>, <<val>>))>>

TetType2(val) ==
  <<EvRow(Obj("T_Dl1_o_Dl2xDl3_v", <<1, 0, 2>>, <<Times(val, 3)>>)),
    EvRow(Obj("T_Dl1_o_Dl2xDl3_v", <<0, 2, 1>>, <<Times(val, 3)>>)),
    EvRow(Obj("T_Dl1_o_Dl2xDl3_v", <<1, 0, 3>>, <<Times(val, 2)>>)),
    EvRow(Obj("T_Dl1_o_Dl2xDl3_v", <<0, 3, 1>>, <<Times(val, 2)>>)),
    EvRow(Obj("T_Dl1_o_Dl2xDl3_v", <<1, 3, 2>>, <<Times(val, 0)>>)),
    EvRow(Obj("T_Dl1_o_Dl2xDl3_v", <<3, 2, 1>>, <<Times(val, 0)>>)),
    EvRow(Obj("T_Dl1_o_Dl2xDl3_v", <<3, 0, 2>>, <<Times(val, 1)>>)),
    EvRow(Obj("T_Dl1_o_Dl2xDl3_v", <<2, 0, 3>>, <<Times(val, 1)>>))>>

\* The type 1 recursion: jac1 starts at alpha 1.
TetInner1(oi) ==
  LET vals == TetNested(oi, 1)
  IN Flatten([n \in 1..Len(vals) |-> TetType1(vals[n])])

\* The type 2 recursion: type 1 left jac1 at alpha 1 + 2*(oi+1).
TetInner2(oi) ==
  LET vals == TetNested(oi - 1, 1 + 2 * max2(oi + 1, 0))
  IN Flatten([n \in 1..Len(vals) |-> TetType2(vals[n])])

\* jac1 starts at alpha 1 and IncAlpha2 runs once per callback of the outer
\* recursion: type 1 leaves it at 1 + 2*(oi+1) for type 2.  plus is not read.
T_CalcShape_TET(of, oi, pl, vn, chk) ==
  Outcome(
    TetFaceRows(of, vn, 0, chk) \o TetFaceRows(of, vn, 1, chk)
    \o TetFaceRows(of, vn, 2, chk) \o TetFaceRows(of, vn, 3, chk)
    \o TetInner1(oi)
    \o TetInner2(oi))

\* ---------------------------------------- HCurlDivSurfaceFE<ET_SEGM>::T_CalcShape
\* One scalar -1*ha[l].Value() per l <= order_inner, ha the Legendre
\* polynomials in le-ls.
T_CalcShape_SEGM(oi, vn, chk) ==
  LET e == SurfSegmSorted(vn)
  IN Outcome(
       FillArray("Legendre", oi, oi + 1, chk)
       \o [l1 \in 1..(oi + 1) |->
            EvRow(Obj("-1*Value", <<>>,
              <<ReadArray(Pol("Legendre", oi, <<l1 - 1>>, e, <<>>), l1 - 1, oi + 1)>>))])

\* ---------------------------------------- HCurlDivSurfaceFE<ET_TRIG>::T_CalcShape
\* Two T_Dl1_o_Dl2xDl3_v_surf(...).Shape() per l below NPol2(order_inner).
T_CalcShape_SURFTRIG(oi, vn, chk) ==
  LET c == SurfTrigSorted(vn)
      s == At(c, 0)
      e == At(c, 1)
      t == At(c, 2)
      size == NPol2(oi)
  IN Outcome(
       FillArray("DubinerBasis3", oi, size, chk)
       \o Flatten([l1 \in 1..NPol2(oi) |->
            LET ha == ReadArray(Pol("DubinerBasis3", oi, <<l1 - 1>>, <<s, e>>, <<>>),
                                l1 - 1, size)
            IN <<EvRow(Obj("T_Dl1_o_Dl2xDl3_v_surf", <<e, s, t>>, <<ha>>)),
                 EvRow(Obj("T_Dl1_o_Dl2xDl3_v_surf", <<s, t, e>>, <<ha>>))>>]))

\* Cast() -> T_CalcShape: the specialization of the element's class.
T_CalcShape(k, of, oi, pl, vn, chk) ==
  CASE k = "ET_TRIG" -> T_CalcShape_TRIG(of, oi, pl, vn, chk)
    [] k = "ET_TET" -> T_CalcShape_TET(of, oi, pl, vn, chk)
    [] k = "SURF_SEGM" -> T_CalcShape_SEGM(oi, vn, chk)
    [] k = "SURF_TRIG" -> T_CalcShape_SURFTRIG(oi, vn, chk)

\* --------------------------------------------------------------- evaluation
\* The integration points: integer coordinates 0..MaxCoord.
RECURSIVE Points(_)
Points(d) ==
  IF d = 0 THEN {<<>>}
  ELSE {Append(q, c) : q \in Points(d - 1), c \in 0..MaxCoord}

\* T_CalcShape with the callback `w` ("Shape": shape.Row(nr) = val.Shape(),
\* "DivShape": shape.Row(nr) = val.DivShape()) at one of the points pts.
Evaluate(w, pts) ==
  LET r == T_CalcShape(et, order_facet, order_inner, plus, vnums, check_range)
  IN /\ \E p \in pts : ip' = p
     /\ rows' = r.rows
     /\ err' = r.err
     /\ what' = w
     /\ pc' = "done"
     /\ UNCHANGED <<elem, check_range, cout, thread>>

\* T_HCurlDivFE::CalcShape and T_HCurlDivSurfaceFE::CalcShape
CalcShape(pts) == Evaluate("Shape", pts)

\* T_HCurlDivFE::CalcDivShape; the surface classes declare none.
CalcDivShape(pts) ==
  /\ et \in VolumeKinds
  /\ Evaluate("DivShape", pts)

\* A DivShape of the surface block that returns the zero vector.
DivShape_surf_zero(obj) == [val |-> <<0, 0>>, err |-> "none"]

\* T_Dl1_o_Dl2xDl3_v_surf::DivShape: throws, whatever the object holds.
DivShape_surf(obj) == [val |-> <<>>, err |-> "not available on surface"]

\* A divergence query on the surface triangle: DivShape() of a shape object
\* of T_CalcShape.  The segment's rows are plain doubles with no DivShape.
SurfDivShape(pts) ==
  /\ et = "SURF_TRIG"
  /\ LET r == T_CalcShape(et, order_facet, order_inner, plus, vnums, check_range)
         d == DivShape_surf(r.rows[1])
     IN /\ r.err = "none"
        /\ \E p \in pts : ip' = p
        /\ rows' = IF d.err = "none" THEN <<r.rows[1]>> ELSE <<>>
        /\ err' = d.err
        /\ what' = "DivShape"
        /\ pc' = "done"
        /\ UNCHANGED <<elem, check_range, cout, thread>>

\* ------------------------------------------------------ evaluation (Spec)
\* The caller sets the orders, calls ComputeNDof and then evaluates once.
Init ==
  /\ Construct(0..MaxEvalOrder)
  /\ check_range \in BOOLEAN
  /\ pc = "setup"
  /\ NoCall

Next ==
  \/ pc = "setup" /\ \E nr \in 0..(N_FACET(et) + 1), o \in 0..MaxEvalOrder :
       SetOrderFacet(nr, o)
  \/ pc = "setup" /\ \E o \in 0..MaxEvalOrder : SetOrderInner(o)
  \/ pc = "setup" /\ ComputeNDof
  \/ pc = "ready" /\ CalcShape(Points(DIM(et)))
  \/ pc = "ready" /\ CalcDivShape(Points(DIM(et)))
  \/ pc = "ready" /\ SurfDivShape(Points(DIM(et)))

Spec == Init /\ [][Next]_vars

\* ------------------------------------------------- orientation (SpecOrient)
\* Pairwise distinct global vertex numbers for the element's vertices.
VertexNumberings(k) ==
  {vn \in [1..N_VERTEX(k) -> 0..MaxVnum] :
     \A a, b \in 1..N_VERTEX(k) : a # b => vn[a] # vn[b]}

\* The reference point with all coordinates 0.
Origin(d) == [i \in 1..d |-> 0]

\* The caller numbers the vertices of a freshly constructed element, calls
\* ComputeNDof and evaluates once.
InitOrient ==
  /\ Construct(0..MaxEvalOrder)
  /\ check_range = FALSE
  /\ pc = "setup"
  /\ NoCall

NextOrient ==
  \/ pc # "done" /\ \E vn \in VertexNumberings(et) : SetVertexNumbers(vn)
  \/ pc = "setup" /\ ComputeNDof
  \/ pc = "ready" /\ CalcShape({Origin(DIM(et))})

SpecOrient == InitOrient /\ [][NextOrient]_vars

\* -------------------------------------------------------- AutoDiffDiff<D>
\* A scalar with its gradient and Hessian: [v, d, dd].  The points are
\* integer, the polynomials below have integer coefficients in the
\* barycentric coordinates, so every component is an integer.
Dims(a) == 1..Len(a.d)

\* A constant.
ADc(dim, c) ==
  [v |-> c, d |-> [i \in 1..dim |-> 0],
   dd |-> [i \in 1..dim |-> [j \in 1..dim |-> 0]]]

\* AutoDiffDiff<D>(ip(i), i): the i-th coordinate (i counted from 0).
ADx(dim, val, i) ==
  [v |-> val, d |-> [k \in 1..dim |-> IF k = i + 1 THEN 1 ELSE 0],
   dd |-> [k \in 1..dim |-> [j \in 1..dim |-> 0]]]

ADAdd(a, b) ==
  [v |-> a.v + b.v, d |-> [i \in Dims(a) |-> a.d[i] + b.d[i]],
   dd |-> [i \in Dims(a) |-> [j \in Dims(a) |-> a.dd[i][j] + b.dd[i][j]]]]

ADScale(c, a) ==
  [v |-> c * a.v, d |-> [i \in Dims(a) |-> c * a.d[i]],
   dd |-> [i \in Dims(a) |-> [j \in Dims(a) |-> c * a.dd[i][j]]]]

ADSub(a, b) == ADAdd(a, ADScale(-1, b))

ADMul(a, b) ==
  [v |-> a.v * b.v,
   d |-> [i \in Dims(a) |-> a.d[i] * b.v + a.v * b.d[i]],
   dd |-> [i \in Dims(a) |-> [j \in Dims(a) |->
            a.dd[i][j] * b.v + a.d[i] * b.d[j] + a.d[j] * b.d[i]
              + a.v * b.dd[i][j]]]]

RECURSIVE ADPow(_, _)
ADPow(a, n) == IF n = 0 THEN ADc(Len(a.d), 1) ELSE ADMul(a, ADPow(a, n - 1))

RECURSIVE ADSum(_)
ADSum(s) == IF Len(s) = 1 THEN s[1] ELSE ADAdd(s[1], ADSum(Tail(s)))

RECURSIVE ADProd(_, _)
ADProd(a, s) == IF s = <<>> THEN a ELSE ADProd(ADMul(a, Head(s)), Tail(s))

\* ddlami: the barycentric coordinates at the point p, x, y, (z,) 1-x-y(-z).
ddlami(p) ==
  LET dim == Len(p)
      ones == ADc(dim, 1)
      RECURSIVE Rest(_)
      Rest(i) == IF i = 0 THEN ones ELSE ADSub(Rest(i - 1), ADx(dim, p[i], i - 1))
  IN [k \in 1..(dim + 1) |-> IF k <= dim THEN ADx(dim, p[k], k - 1) ELSE Rest(dim)]

\* ------------------------------------------- orthogonal polynomial evaluators
RECURSIVE Binom(_, _)
Binom(n, k) ==
  IF k < 0 \/ k > n THEN 0
  ELSE IF k = 0 THEN 1
  ELSE (Binom(n - 1, k - 1) * n) \div k

\* The Jacobi polynomial P_n^(alpha,0), scaled: t^n P_n(x/t), written in
\* A = (x+t)/2 and B = (x-t)/2.  alpha = 0 is the Legendre polynomial, t = 1
\* the unscaled one.
JacobiAB(n, alpha, A, B) ==
  ADSum([s1 \in 1..(n + 1) |->
    ADScale(Binom(n + alpha, n - (s1 - 1)) * Binom(n, s1 - 1),
            ADMul(ADPow(B, s1 - 1), ADPow(A, n - (s1 - 1))))])

\* The integrated Legendre polynomial L_n, n >= 2, scaled, in A and B:
\* L_n = (x^2 - t^2) / (2(n-1)) * P_(n-2)^(1,1).
IntLegendreAB(n, A, B) ==
  ADMul(ADScale(2, ADMul(A, B)),
    ADSum([s1 \in 1..(n - 1) |->
      ADScale((Binom(n - 1, s1) * Binom(n - 1, s1 - 1)) \div (n - 1),
              ADMul(ADPow(B, s1 - 1), ADPow(A, n - 2 - (s1 - 1))))]))

\* DubinerBasis3::Eval(n, x, y, values) fills values in the order
\* (i, j), i = 0..n, j = 0..n-i: the pair of entry l.
RECURSIVE DubinerPair(_, _, _)
DubinerPair(n, l, i) ==
  IF l <= n - i THEN <<i, l>> ELSE DubinerPair(n, l - (n - i + 1), i + 1)

\* The value of the scalar factor p at the point pt.
Scalar(p, pt) ==
  LET lam == ddlami(pt)
      L(k) == At(lam, k)
      dim == Len(pt)
      one == ADc(dim, 1)
      mulv == [k \in 1..Len(p.mul) |-> L(p.mul[k])]
      base ==
        CASE p.f = "ScaledLegendre" ->
               \* ScaledLegendrePolynomial(n, le-ls, le+ls): on = <<es, ee>>
               JacobiAB(p.i[1], 0, L(p.on[2]), ADScale(-1, L(p.on[1])))
          [] p.f = "Legendre" ->
               \* LegendrePolynomial::Eval(n, 2*lt-1): on = <<et>>;
               \* LegendrePolynomial::Eval(n, le-ls): on = <<es, ee>>
               IF Len(p.on) = 1
                 THEN JacobiAB(p.i[1], 0, L(p.on[1]), ADSub(L(p.on[1]), one))
                 ELSE JacobiAB(p.i[1], 0, L(p.on[2]), ADScale(-1, L(p.on[1])))
          [] p.f = "LegendreMult" ->
               \* LegendrePolynomial::EvalMult(n, 2*l-1, l): on = <<l>>
               JacobiAB(p.i[1], 0, L(p.on[1]), ADSub(L(p.on[1]), one))
          [] p.f = "CalcTrigExt" ->
               \* CalcTrigExt(n, a-b, 1-a-b, u): u[i] = L_(i+2), on = <<a, b>>
               IntLegendreAB(p.i[1] + 2, L(p.on[1]), ADScale(-1, L(p.on[2])))
          [] p.f = "DubinerBasis3" ->
               \* DubinerBasis3::Eval(n, ls, le): on = <<s, e>>
               LET ij == DubinerPair(p.n, p.i[1], 0)
                   r == ADSub(ADSub(one, L(p.on[1])), L(p.on[2]))
               IN ADMul(JacobiAB(ij[1], 0, L(p.on[2]), ADScale(-1, r)),
                        JacobiAB(ij[2], 1 + 2 * ij[1], L(p.on[1]),
                                 ADSub(L(p.on[1]), one)))
          [] p.f = "Leg*Jac1*Jac2" ->
               \* leg in (lt-lo, lt+lo), jac1 in (le-lt-lo, 1-ls), jac2 in
               \* 2*ls-1; on = <<s, e, t, o>>
               LET k == p.i[1]
                   j == p.i[2]
                   i == p.i[3]
                   ls == L(p.on[1])
                   le == L(p.on[2])
                   lt == L(p.on[3])
                   lo == L(p.on[4])
               IN ADMul(JacobiAB(k, 0, lt, ADScale(-1, lo)),
                    ADMul(JacobiAB(j, p.a + 2 * k, le, ADScale(-1, ADAdd(lt, lo))),
                          JacobiAB(i, 2 * k + 2 + 2 * j, ls, ADSub(ls, one))))
  IN ADProd(base, mulv)

\* ------------------------------------------------------------------ DivShape
Sigma_gradv_DivShape(v) == <<0, 0>>

\* A DivShape of the type 1 block that returns the type 2 divergence.
Sigma_gradu_v_DivShape_type2(u, v) ==
  <<-2 * (-u.dd[1][1] * v.d[2] + u.dd[1][2] * v.d[1]),
    -2 * (-u.dd[1][2] * v.d[2] + u.dd[2][2] * v.d[1])>>

Sigma_gradu_v_DivShape(u, v) == <<0, 0>>

Curlgraduv_graducurlv_DivShape(u, v) ==
  LET uxx == u.dd[1][1]
      uxy == u.dd[1][2]
      uyy == u.dd[2][2]
      vx == v.d[1]
      vy == v.d[2]
  IN <<-2 * (-uxx * vy + uxy * vx), -2 * (-uxy * vy + uyy * vx)>>

T_type4_DivShape(l1, l2, v) == <<0, 0>>

T_Dl1_o_Dl2xDl3_v_DivShape(l1, l2, l3, v) ==
  LET vx == v.d[1]
      vy == v.d[2]
      vz == v.d[3]
      cross1 == l2.d[2] * l3.d[3] - l2.d[3] * l3.d[2]
      cross2 == -(l2.d[1] * l3.d[3] - l2.d[3] * l3.d[1])
      cross3 == l2.d[1] * l3.d[2] - l2.d[2] * l3.d[1]
  IN [i \in 1..3 |->
        vx * l1.d[i] * cross1 + vy * l1.d[i] * cross2 + vz * l1.d[i] * cross3]

T_Id_v_DivShape(v) == [i \in Dims(v) |-> v.d[i]]

\* val.DivShape() of the shape object r at the point pt.  An object built on
\* an entry no evaluator wrote has no determined value.
DivShapeOf(r, pt) ==
  LET lam == ddlami(pt)
      l(k) == At(lam, r.lam[k])
      sc(k) == Scalar(r.sc[k], pt)
  IN IF \E k \in 1..Len(r.sc) : ~r.sc[k].ok THEN <<"indeterminate">>
     ELSE CASE r.blk = "Sigma_gradv" -> Sigma_gradv_DivShape(sc(1))
            [] r.blk = "Sigma_gradu_v" -> Sigma_gradu_v_DivShape(sc(1), sc(2))
            [] r.blk = "Curlgraduv_graducurlv" ->
                 Curlgraduv_graducurlv_DivShape(sc(1), sc(2))
            [] r.blk = "T_type4" -> T_type4_DivShape(l(1), l(2), sc(1))
            [] r.blk = "T_Dl1_o_Dl2xDl3_v" ->
                 T_Dl1_o_Dl2xDl3_v_DivShape(l(1), l(2), l(3), sc(1))
            [] r.blk = "T_Id_v" -> T_Id_v_DivShape(sc(1))

\* The divergence buffer after CalcDivShape: row nr holds DivShape() of the
\* object handed to the callback with index nr.
DivRow(nr) == DivShapeOf(rows[nr + 1], ip)

\* ------------------------------------------------- the order sweep (SpecNDof)
\* Constructor, setters and ComputeNDof in any order, orders 0..MaxOrder.
InitNDof ==
  /\ Construct(0..MaxOrder)
  /\ check_range = FALSE
  /\ pc = "setup"
  /\ NoCall

NextNDof ==
  \/ \E nr \in 0..(N_FACET(et) + 1), o \in 0..MaxOrder : SetOrderFacet(nr, o)
  \/ \E o \in 0..MaxOrder : SetOrderInner(o)
  \/ ComputeNDof

SpecNDof == InitNDof /\ [][NextNDof]_vars

\* ------------------------------------------- the class templates (SpecBase)
\* An object of T_HCurlDivFE<ET> or T_HCurlDivSurfaceFE<ET> itself: the same
\* constructors, none of the overrides.
ConstructBase(orders) ==
  \/ \E k \in BaseVolumeKinds, aorder \in orders, _plus \in BOOLEAN :
       T_HCurlDivFE(k, aorder, _plus)
  \/ \E k \in BaseSurfaceKinds, aorder \in orders :
       T_HCurlDivSurfaceFE(k, aorder)

\* T_HCurlDivFE<ET>::ComputeNDof: writes one line to cout and returns; no
\* field is written and nothing is thrown.
ComputeNDof_T_HCurlDivFE ==
  /\ et \in BaseVolumeKinds
  /\ cout' =
       <<"Error, T_HCurlDivFE<ET>:: ComputeNDof not available, only for ET == TRIG">>
  /\ pc' = "ready"
  /\ UNCHANGED <<elem, check_range, ip, rows, what, err, thread>>

\* T_HCurlDivSurfaceFE<ET>::ComputeNDof: the same, with its own line.
ComputeNDof_T_HCurlDivSurfaceFE ==
  /\ et \in BaseSurfaceKinds
  /\ cout' =
       <<"Error, T_HCurlDivSurfaceFE<ET>:: ComputeNDof not available for base class">>
  /\ pc' = "ready"
  /\ UNCHANGED <<elem, check_range, ip, rows, what, err, thread>>

\* The caller sets the orders of such an object, SetOrderFacet with every nr
\* that reaches a field of the object, and calls ComputeNDof.
InitBase ==
  /\ ConstructBase(0..MaxEvalOrder)
  /\ check_range = FALSE
  /\ pc = "setup"
  /\ NoCall

NextBase ==
  \/ \E nr \in ((0 - N_VERTEX(et)) - 2)..(N_FACET(et) + 1), o \in 0..MaxEvalOrder :
       SetOrderFacet(nr, o)
  \/ \E o \in 0..MaxEvalOrder : SetOrderInner(o)
  \/ ComputeNDof_T_HCurlDivFE
  \/ ComputeNDof_T_HCurlDivSurfaceFE

SpecBase == InitBase /\ [][NextBase]_vars

\* ------------------------------------------- mapped evaluation (SpecMapped)
\* The mapped integration points: a reference point and whether the
\* element's transformation is curved (mip.GetTransformation().IsCurvedElement()).
Mips(d) == {[IP |-> p, IsCurvedElement |-> c] : p \in Points(d), c \in BOOLEAN}

\* T_HCurlDivFE::CalcMappedShape: T_CalcShape at the mapped point, the
\* callback storing val.Shape() in row nr.
CalcMappedShape(mips) ==
  LET r == T_CalcShape(et, order_facet, order_inner, plus, vnums, check_range)
  IN /\ et \in VolumeKinds
     /\ \E mip \in mips : ip' = mip
     /\ rows' = r.rows
     /\ err' = r.err
     /\ what' = "MappedShape"
     /\ pc' = "done"
     /\ UNCHANGED <<elem, check_range, cout, thread>>

\* T_HCurlDivSurfaceFE::CalcMappedShape: throws before any row.
CalcMappedShape_surf(mips) ==
  /\ et \in SurfaceKinds
  /\ \E mip \in mips : ip' = mip
  /\ rows' = <<>>
  /\ err' = "not implemented"
  /\ what' = "MappedShape"
  /\ pc' = "done"
  /\ UNCHANGED <<elem, check_range, cout, thread>>

\* A CalcMappedDivShape that takes the affine branch on every element.
CalcMappedDivShape_affine(mips) ==
  LET r == T_CalcShape(et, order_facet, order_inner, plus, vnums, check_range)
  IN /\ et \in VolumeKinds
     /\ \E mip \in mips : ip' = mip
     /\ rows' = r.rows
     /\ err' = r.err
     /\ what' = "MappedDivShape"
     /\ pc' = "done"
     /\ UNCHANGED <<elem, check_range, cout, thread>>

\* T_HCurlDivFE::CalcMappedDivShape: on a non-curved element T_CalcShape
\* with the callback storing val.DivShape() in row nr; on a curved element
\* the throw is the only statement of the branch.
CalcMappedDivShape(mips) ==
  LET r == T_CalcShape(et, order_facet, order_inner, plus, vnums, check_range)
  IN /\ et \in VolumeKinds
     /\ \E mip \in mips :
          /\ ip' = mip
          /\ IF ~mip.IsCurvedElement
               THEN rows' = r.rows /\ err' = r.err
               ELSE rows' = <<>> /\ err' = "not implemented yet!"
     /\ what' = "MappedDivShape"
     /\ pc' = "done"
     /\ UNCHANGED <<elem, check_range, cout, thread>>

\* The caller sets the orders, calls ComputeNDof and then evaluates once at
\* a mapped point.
InitMapped ==
  /\ Construct(0..MaxEvalOrder)
  /\ check_range \in BOOLEAN
  /\ pc = "setup"
  /\ NoCall

NextMapped ==
  \/ pc = "setup" /\ \E nr \in 0..(N_FACET(et) + 1), o \in 0..MaxEvalOrder :
       SetOrderFacet(nr, o)
  \/ pc = "setup" /\ \E o \in 0..MaxEvalOrder : SetOrderInner(o)
  \/ pc = "setup" /\ ComputeNDof
  \/ pc = "ready" /\ CalcMappedShape(Mips(DIM(et)))
  \/ pc = "ready" /\ CalcMappedShape_surf(Mips(DIM(et)))
  \/ pc = "ready" /\ CalcMappedDivShape(Mips(DIM(et)))

SpecMapped == InitMapped /\ [][NextMapped]_vars

\* ------------------------------------------ triangle evaluation (SpecTrig)
\* Largest order given to the triangle evaluated on its own.
MaxTrigOrder == 2

\* The triangle alone, with orders up to MaxTrigOrder: the caller sets the
\* orders, calls ComputeNDof and then evaluates once.
InitTrig ==
  /\ \E aorder \in 0..MaxTrigOrder, _plus \in BOOLEAN :
       T_HCurlDivFE("ET_TRIG", aorder, _plus)
  /\ check_range \in BOOLEAN
  /\ pc = "setup"
  /\ NoCall

NextTrig ==
  \/ pc = "setup" /\ \E nr \in 0..(N_FACET(et) + 1), o \in 0..MaxTrigOrder :
       SetOrderFacet(nr, o)
  \/ pc = "setup" /\ \E o \in 0..MaxTrigOrder : SetOrderInner(o)
  \/ pc = "setup" /\ ComputeNDof
  \/ pc = "ready" /\ CalcShape(Points(DIM(et)))
  \/ pc = "ready" /\ CalcDivShape(Points(DIM(et)))

SpecTrig == InitTrig /\ [][NextTrig]_vars

\* -------------------------------------------- negative orders (SpecNeg)
\* The most negative order handed to SetOrderFacet is -MaxNeg.
MaxNeg == 1

\* The setters take any int; the caller hands SetOrderFacet negative
\* orders too, then calls ComputeNDof and evaluates once.  The negative
\* orders go to the facets: a store that leaves the array carries an order
\* from 0 on.
InitNeg ==
  /\ Construct(0..MaxEvalOrder)
  /\ check_range = FALSE
  /\ pc = "setup"
  /\ NoCall

NextNeg ==
  \/ pc = "setup" /\ \E nr \in 0..(N_FACET(et) + 1), o \in (0 - MaxNeg)..MaxEvalOrder :
       (nr >= N_FACET(et) => o >= 0) /\ SetOrderFacet(nr, o)
  \/ pc = "setup" /\ \E o \in 0..MaxEvalOrder : SetOrderInner(o)
  \/ pc = "setup" /\ ComputeNDof
  \/ pc = "ready" /\ CalcShape({Origin(DIM(et))})

SpecNeg == InitNeg /\ [][NextNeg]_vars

\* ------------------------------------- concurrent evaluation (SpecEval)
\* Largest order of an element evaluated concurrently.
MaxConcOrder == 0

\* The evaluation calls a class declares.
EvalOps(k) ==
  IF k \in VolumeKinds
    THEN {"CalcShape", "CalcDivShape", "CalcMappedShape", "CalcMappedDivShape"}
    ELSE {"CalcShape", "CalcMappedShape"}

\* The point of thread t: all coordinates t-1; a mapped call also carries
\* whether the element is curved.
EvalArgs(op, t, d) ==
  IF op \in {"CalcShape", "CalcDivShape"}
    THEN {[IP |-> [i \in 1..d |-> t - 1]]}
    ELSE {[IP |-> [i \in 1..d |-> t - 1], IsCurvedElement |-> c] : c \in BOOLEAN}

\* The rows a call hands to its callback and the exception that ends it, as
\* read from the element's fields: the two throwing branches, else
\* T_CalcShape on locals of the call.
CallOutcome(op, arg) ==
  CASE op = "CalcMappedDivShape" /\ arg.IsCurvedElement ->
         [rows |-> <<>>, err |-> "not implemented yet!"]
    [] op = "CalcMappedShape" /\ et \in SurfaceKinds ->
         [rows |-> <<>>, err |-> "not implemented"]
    [] OTHER ->
         T_CalcShape(et, order_facet, order_inner, plus, vnums, check_range)

\* Thread t enters an evaluation call with its own point and output buffer
\* `shape`; ii is the row counter of T_CalcShape, a local of the call.
StartCall(t, op, arg) ==
  /\ thread[t].op = "idle"
  /\ op \in EvalOps(et)
  /\ thread' = [thread EXCEPT ![t] =
       [op |-> op, arg |-> arg, ii |-> 0, shape |-> <<>>, err |-> "none",
        returned |-> FALSE]]
  /\ UNCHANGED <<elem, check_range, pc, ip, rows, what, err, cout>>

\* An evaluation step that also stores its row counter in the element.
EvalStep_member(t) ==
  LET c == thread[t]
      r == CallOutcome(c.op, c.arg)
  IN /\ c.op # "idle"
     /\ ~c.returned
     /\ thread' = [thread EXCEPT ![t] =
          IF c.ii < Len(r.rows)
            THEN [c EXCEPT !.ii = c.ii + 1,
                           !.shape = Append(c.shape, r.rows[c.ii + 1])]
            ELSE [c EXCEPT !.returned = TRUE, !.err = r.err]]
     /\ ndof' = Written(c.ii)
     /\ UNCHANGED <<et, order_facet, order_inner, plus, vnums, order>>
     /\ UNCHANGED <<check_range, pc, ip, rows, what, err, cout>>

\* One step of thread t's call: the callback stores row ii in the thread's
\* buffer (shape[ii++] = ...), or the call ends: it returns or throws.  The
\* methods are const: a step reads the element's fields and writes none.
EvalStep(t) ==
  LET c == thread[t]
      r == CallOutcome(c.op, c.arg)
  IN /\ c.op # "idle"
     /\ ~c.returned
     /\ thread' = [thread EXCEPT ![t] =
          IF c.ii < Len(r.rows)
            THEN [c EXCEPT !.ii = c.ii + 1,
                           !.shape = Append(c.shape, r.rows[c.ii + 1])]
            ELSE [c EXCEPT !.returned = TRUE, !.err = r.err]]
     /\ UNCHANGED <<elem, check_range, pc, ip, rows, what, err, cout>>

\* The element is constructed and ComputeNDof called by one thread; then the
\* threads evaluate concurrently, no setter running.
InitEval ==
  /\ Construct(0..MaxConcOrder)
  /\ check_range = FALSE
  /\ pc = "setup"
  /\ NoCall

NextEval ==
  \/ pc = "setup" /\ ComputeNDof
  \/ pc = "ready" /\ \E t \in Threads, op \in EvalOps(et) :
       \E arg \in EvalArgs(op, t, DIM(et)) : StartCall(t, op, arg)
  \/ pc = "ready" /\ \E t \in Threads : EvalStep(t)

SpecEval == InitEval /\ [][NextEval]_vars

\* ------------------------------------ concurrent ComputeNDof (SpecRace)
\* The statements of ComputeNDof on the fields ndof and order, in program
\* order: a plain assignment, `var += val`, `var = max2(var, val)`
\* (`order++` is `order += 1`).  order_facet, order_inner and plus are only
\* read; ninner is a local.
Store(var, val) == [op |-> "store", var |-> var, val |-> val]
AddTo(var, val) == [op |-> "add", var |-> var, val |-> val]
MaxInto(var, val) == [op |-> "max", var |-> var, val |-> val]

ComputeNDof_Statements(k, of, oi, pl) ==
  LET perfacet(o) == IF k = "ET_TRIG" THEN o + 1 ELSE (o + 1) * (o + 2)
      facets == Flatten([i1 \in 1..N_FACET(k) |->
                  <<AddTo("ndof", perfacet(of[i1])), MaxInto("order", of[i1])>>])
      ninner_TRIG == oi + 1 + 2 * ((oi + 1) * oi)
      ninner_TET ==
        TruncDiv((oi + 1) * (oi + 2) * (oi + 3) + 8 * ((oi + 2) * (oi + 1) * oi), 6)
  IN CASE k = "ET_TRIG" ->
            <<Store("order", 0), Store("ndof", 0)>> \o facets
            \o <<MaxInto("order", oi)>>
            \o (IF pl THEN <<AddTo("order", 1)>> ELSE <<>>)
            \o <<AddTo("ndof", IF pl THEN ninner_TRIG + 2 * oi ELSE ninner_TRIG)>>
       [] k = "ET_TET" ->
            <<Store("order", 0), Store("ndof", 0)>> \o facets
            \o <<MaxInto("order", oi), AddTo("ndof", ninner_TET)>>
       [] k = "SURF_SEGM" ->
            <<Store("order", 0), Store("ndof", 0),
              AddTo("ndof", oi + 1), MaxInto("order", oi)>>
       [] k = "SURF_TRIG" ->
            <<Store("order", 0), Store("ndof", 0),
              AddTo("ndof", (oi + 1) * (oi + 2)), MaxInto("order", oi)>>

\* Thread t enters ComputeNDof: at statement 0, nothing loaded.
StartComputeNDof(t) ==
  /\ thread[t].op = "idle"
  /\ thread' = [thread EXCEPT ![t] =
       [op |-> "ComputeNDof", k |-> 0, loaded |-> FALSE, reg |-> 0,
        returned |-> FALSE]]
  /\ UNCHANGED <<elem, check_range, pc, ip, rows, what, err, cout>>

\* One memory access of thread t's ComputeNDof.  An assignment is one
\* write; `+=` and max2 read the field into a register and write the result
\* back in a later step; after the last statement the call returns.
StepComputeNDof(t) ==
  LET c == thread[t]
      prog == ComputeNDof_Statements(et, order_facet, order_inner, plus)
      ins == prog[c.k + 1]
      field == IF ins.var = "ndof" THEN ndof.value ELSE order
      writes == c.k < Len(prog) /\ (ins.op = "store" \/ c.loaded)
      value == CASE ins.op = "store" -> ins.val
                 [] ins.op = "add" -> c.reg + ins.val
                 [] ins.op = "max" -> max2(c.reg, ins.val)
  IN /\ c.op = "ComputeNDof"
     /\ ~c.returned
     /\ thread' = [thread EXCEPT ![t] =
          IF c.k = Len(prog) THEN [c EXCEPT !.returned = TRUE]
          ELSE IF writes THEN [c EXCEPT !.k = c.k + 1, !.loaded = FALSE]
          ELSE [c EXCEPT !.loaded = TRUE, !.reg = field]]
     /\ ndof' = IF writes /\ ins.var = "ndof" THEN Written(value) ELSE ndof
     /\ order' = IF writes /\ ins.var = "order" THEN value ELSE order
     /\ UNCHANGED <<et, order_facet, order_inner, plus, vnums>>
     /\ UNCHANGED <<check_range, pc, ip, rows, what, err, cout>>

\* The element is constructed; then the threads call ComputeNDof, the order
\* specification not being changed.
InitRace ==
  /\ Construct(0..MaxEvalOrder)
  /\ check_range = FALSE
  /\ pc = "setup"
  /\ NoCall

NextRace ==
  \/ \E t \in Threads : StartComputeNDof(t)
  \/ \E t \in Threads : StepComputeNDof(t)

SpecRace == InitRace /\ [][NextRace]_vars

\* ----------------------------------- the triangle's scratch arrays
\* The evaluator calls of the triangle's T_CalcShape that fill a scratch
\* array, in program order: the evaluator, its target degree, the array and
\* the size the array was allocated with (ha(maxorder_facet+1),
\* v(order_inner+1), u(order_inner+3)).
TrigFills(of, oi) ==
  LET m == maxorder_facet_TRIG(of)
      edge == [f |-> "ScaledLegendre", n |-> m, into |-> "ha", size |-> m + 1]
      trigext == [f |-> "CalcTrigExt", n |-> oi + 3, into |-> "u", size |-> oi + 3]
      evalmult == [f |-> "LegendreMult", n |-> oi + 1, into |-> "v", size |-> oi + 1]
      eval == [f |-> "Legendre", n |-> oi, into |-> "v", size |-> oi + 1]
  IN <<edge, edge, edge, trigext, evalmult, trigext, evalmult, eval,
       trigext, evalmult>>

\* ====================================================================
\* Properties
\* ====================================================================
Max3(a, b, c) == max2(a, max2(b, c))

\* --- C1 -------------------------------------------------------------
\* C1: after ComputeNDof, an evaluation through CalcShape (in a build
\* without array range checks) completes and hands exactly ndof rows to its
\* callback, indices 0..ndof-1.
C1_RowsEqualNDof ==
  (pc = "done" /\ what = "Shape" /\ ~check_range) =>
    (err = "none" /\ ndof = Written(Len(rows)))

\* --- C2 -------------------------------------------------------------
\* C2: triangle ComputeNDof sets ndof to the sum over the 3 facets of
\* order_facet[f]+1 plus ninner = (oi+1) + 2*(oi+1)*oi, and 2*oi more when
\* plus is set.
C2_TrigNDof ==
  (pc = "ready" /\ et = "ET_TRIG") =>
    ndof = Written((order_facet[1] + 1) + (order_facet[2] + 1)
                   + (order_facet[3] + 1)
                   + (order_inner + 1) + 2 * (order_inner + 1) * order_inner
                   + (IF plus THEN 2 * order_inner ELSE 0))

C2_Witness ==
  /\ pc = "ready" /\ et = "ET_TRIG" /\ plus
  /\ order_facet = <<0, 1, 2>> /\ order_inner = 2
  /\ ndof = Written(25)

\* --- C3 -------------------------------------------------------------
\* C3 (as stated): the triangle's reported order is the maximum of the
\* facet orders and the interior order, the interior order incremented
\* when plus is set.
C3_OrderInnerIncremented ==
  (pc = "ready" /\ et = "ET_TRIG") =>
    order = max2(Max3(order_facet[1], order_facet[2], order_facet[3]),
                 IF plus THEN order_inner + 1 ELSE order_inner)

\* C3 (amended): the triangle's reported order is the maximum of the facet
\* orders and the interior order, and that maximum is incremented by one
\* when plus is set.
C3_OrderMaxIncremented ==
  (pc = "ready" /\ et = "ET_TRIG") =>
    order = max2(Max3(order_facet[1], order_facet[2], order_facet[3]), order_inner)
            + (IF plus THEN 1 ELSE 0)

C3_Witness ==
  /\ pc = "ready" /\ et = "ET_TRIG" /\ plus
  /\ order_facet[1] > order_inner + 1
  /\ order = order_facet[1] + 1

\* --- C4 -------------------------------------------------------------
\* C4: tetrahedron ComputeNDof sets ndof to the sum over the 4 facets of
\* (order_facet[f]+1)*(order_facet[f]+2) plus C(oi+3,3) + 8*C(oi+2,3), and
\* order to the maximum of the 4 facet orders and the interior order.
C4_TetNDof ==
  (pc = "ready" /\ et = "ET_TET") =>
    /\ ndof = Written((order_facet[1] + 1) * (order_facet[1] + 2)
                      + (order_facet[2] + 1) * (order_facet[2] + 2)
                      + (order_facet[3] + 1) * (order_facet[3] + 2)
                      + (order_facet[4] + 1) * (order_facet[4] + 2)
                      + Binom(order_inner + 3, 3) + 8 * Binom(order_inner + 2, 3))
    /\ order = max2(Max3(order_facet[1], order_facet[2], order_facet[3]),
                    max2(order_facet[4], order_inner))

C4_Witness ==
  /\ pc = "ready" /\ et = "ET_TET"
  /\ order_facet = <<0, 0, 0, 2>> /\ order_inner = 1
  /\ ndof = Written(30) /\ order = 2

\* --- C5 -------------------------------------------------------------
C5_Case ==
  et = "ET_TRIG" /\ order_facet = <<1, 1, 1>> /\ order_inner = 1 /\ ~plus

\* Row numbers of the rows whose building block is in blks.
RowsOf(blks) == {nr \in 0..(Len(rows) - 1) : rows[nr + 1].blk \in blks}

\* C5 (as stated): the triangle with order_facet = [1,1,1], order_inner = 1,
\* plus = false has ndof = 10 and its evaluation writes 10 rows, 6 edge
\* rows and 4 interior rows, 2 from div-free families and 2 not.
C5_TenRows ==
  C5_Case =>
    /\ pc \in {"ready", "done"} => ndof = Written(10)
    /\ (pc = "done" /\ ~check_range) =>
         /\ Len(rows) = 10
         /\ RowsOf({"Sigma_gradv"}) = 0..5
         /\ Cardinality(RowsOf({"Sigma_gradu_v", "T_type4"})) = 2
         /\ Cardinality(RowsOf({"Curlgraduv_graducurlv"})) = 2

\* C5 (amended): that triangle has ndof = 12.  Without array range checks
\* its evaluation writes 12 rows: the 6 edge rows, divergence (0,0), then 6
\* interior rows, 4 from div-free families (2 of type 1, 2 of type 3,
\* divergence (0,0)) and 2 of type 2 with a nonzero divergence.  With range
\* checks it writes the 6 edge rows and raises the range error.
C5_TwelveRows ==
  C5_Case =>
    /\ pc \in {"ready", "done"} => ndof = Written(12)
    /\ (pc = "done" /\ ~check_range) =>
         /\ err = "none"
         /\ Len(rows) = 12
         /\ RowsOf({"Sigma_gradv"}) = 0..5
         /\ RowsOf({"Sigma_gradu_v"}) = {6, 8}
         /\ RowsOf({"Curlgraduv_graducurlv"}) = {7, 9}
         /\ RowsOf({"T_type4"}) = {10, 11}
         /\ what = "DivShape" =>
              /\ \A nr \in (0..6) \cup {8, 10, 11} : DivRow(nr) = <<0, 0>>
              /\ DivRow(7) = <<-4, -8>>
              /\ DivRow(9) = <<-4, 4>>
    /\ (pc = "done" /\ check_range) =>
         /\ err = "RangeException"
         /\ Len(rows) = 6
         /\ RowsOf({"Sigma_gradv"}) = 0..5

C5_Witness ==
  /\ C5_Case /\ pc = "done" /\ what = "DivShape" /\ ~check_range
  /\ ndof = Written(12) /\ Len(rows) = 12
  /\ ip = <<1, 1>>
  /\ DivRow(9) = <<-4, 4>>

\* --- C6 -------------------------------------------------------------
TrigDivFreeBlocks == {"Sigma_gradv", "Sigma_gradu_v", "T_type4"}

Zero(d) == [i \in 1..d |-> 0]

\* C6 (as stated): every row of a declared div-free family has DivShape()
\* zero: the edge, type 1 and type 3 rows of the triangle and the type 1
\* rows of the tetrahedron.
C6_AllDivFree ==
  (pc = "done" /\ what = "DivShape" /\ et \in VolumeKinds) =>
    \A nr \in 0..(Len(rows) - 1) :
      /\ (et = "ET_TRIG" /\ rows[nr + 1].blk \in TrigDivFreeBlocks) =>
           DivRow(nr) = Zero(2)
      /\ (et = "ET_TET" /\ rows[nr + 1].blk = "T_Id_v") =>
           DivRow(nr) = Zero(3)

\* C6 (amended): the edge, type 1 and type 3 rows of the triangle have
\* DivShape() zero.  A type 1 row of the tetrahedron is the identity times
\* the polynomial val and its DivShape() is the gradient of val: zero for the
\* index triple (0,0,0), where val is constant.
C6_DivFreeFamilies ==
  (pc = "done" /\ what = "DivShape" /\ et \in VolumeKinds) =>
    \A nr \in 0..(Len(rows) - 1) :
      /\ (et = "ET_TRIG" /\ rows[nr + 1].blk \in TrigDivFreeBlocks) =>
           DivRow(nr) = Zero(2)
      /\ (et = "ET_TET" /\ rows[nr + 1].blk = "T_Id_v") =>
           /\ DivRow(nr) = Scalar(rows[nr + 1].sc[1], ip).d
           /\ rows[nr + 1].sc[1].i = <<0, 0, 0>> => DivRow(nr) = Zero(3)

C6_Witness ==
  /\ pc = "done" /\ what = "DivShape" /\ et = "ET_TET" /\ err = "none"
  /\ order_inner = 1
  /\ ip = <<1, 1, 0>>
  /\ \E nr \in 0..(Len(rows) - 1) :
       /\ rows[nr + 1].blk = "T_Id_v"
       /\ rows[nr + 1].sc[1].i = <<0, 0, 1>>
       /\ DivRow(nr) = <<4, 0, 0>>

\* --- C7 -------------------------------------------------------------
ToSet(t) == {t[k] : k \in 1..Len(t)}

Vn(v) == At(vnums, v)

\* The local vertex among lam that is not s or e.
ThirdOf(lam, s, e) == CHOOSE t \in ToSet(lam) : t # s /\ t # e

IsFaceRow(r) == r.blk = "T_Dl1_o_Dl2xDl3_v" /\ r.sc[1].f = "DubinerBasis3"

\* C7: for pairwise distinct vnums the triangle's edge loop leaves (es, ee)
\* the two vertices of the edge with vnums[es] < vnums[ee], and the
\* tetrahedron's face loop leaves fav a permutation of the face's vertices
\* with vnums[fav[0]] < vnums[fav[1]] < vnums[fav[2]]; the rows handed to the
\* callback are built on the coordinates in that order.
C7_FacetsAscending ==
  /\ et = "ET_TRIG" =>
       /\ \A i \in 0..2 :
            LET e == EdgeSorted(vnums, i)
            IN /\ ToSet(e) = ToSet(At(trig_edges, i))
               /\ Vn(At(e, 0)) < Vn(At(e, 1))
       /\ (pc = "done" /\ what = "Shape") =>
            \A n \in 1..Len(rows) :
              rows[n].blk = "Sigma_gradv" =>
                LET on == rows[n].sc[1].on
                IN /\ \E i \in 0..2 : ToSet(on) = ToSet(At(trig_edges, i))
                   /\ Vn(on[1]) < Vn(on[2])
                   /\ rows[n].sc[1].mul = <<on[2], on[1]>>
  /\ et = "ET_TET" =>
       /\ \A fa \in 0..3 :
            LET f == FaceSorted(vnums, fa)
            IN /\ ToSet(f) = ToSet(At(tet_faces, fa))
               /\ Vn(At(f, 0)) < Vn(At(f, 1))
               /\ Vn(At(f, 1)) < Vn(At(f, 2))
       /\ (pc = "done" /\ what = "Shape") =>
            \A n \in 1..Len(rows) :
              IsFaceRow(rows[n]) =>
                LET s == rows[n].sc[1].on[1]
                    e == rows[n].sc[1].on[2]
                    t == ThirdOf(rows[n].lam, s, e)
                IN /\ \E fa \in 0..3 : ToSet(rows[n].lam) = ToSet(At(tet_faces, fa))
                   /\ Vn(s) < Vn(e)
                   /\ Vn(e) < Vn(t)
                   /\ rows[n].lam \in {<<e, s, t>>, <<s, t, e>>}

C7_Witness ==
  /\ pc = "done" /\ what = "Shape" /\ et = "ET_TET" /\ err = "none"
  /\ vnums = <<3, 2, 1, 0>>
  /\ Len(rows) > 0
  /\ rows[1].lam = <<2, 3, 1>>

\* --- C8 -------------------------------------------------------------
\* C8: for pairwise distinct vnums the three compare-and-swap steps of the
\* surface triangle leave (es, ee, et) a permutation of (0, 1, 2) with
\* vnums[es] < vnums[ee] < vnums[et], and the rows are built on the
\* coordinates in that order.
C8_SurfaceTrigAscending ==
  et = "SURF_TRIG" =>
    /\ LET c == SurfTrigSorted(vnums)
       IN /\ ToSet(c) = {0, 1, 2}
          /\ Vn(At(c, 0)) < Vn(At(c, 1))
          /\ Vn(At(c, 1)) < Vn(At(c, 2))
    /\ (pc = "done" /\ what = "Shape") =>
         \A n \in 1..Len(rows) :
           LET s == rows[n].sc[1].on[1]
               e == rows[n].sc[1].on[2]
               t == ThirdOf(rows[n].lam, s, e)
           IN Vn(s) < Vn(e) /\ Vn(e) < Vn(t)

\* --- C9 -------------------------------------------------------------
\* The local numberings of an element with n vertices: sigma[j+1] is the
\* vertex, in the numbering of the state, that gets the local index j.
Numberings(n) ==
  {sg \in [1..n -> 0..(n - 1)] : \A a, b \in 1..n : a # b => sg[a] # sg[b]}

\* The local vertices of facet i.
FacetVertices(k, i) ==
  IF k = "ET_TRIG" THEN ToSet(At(trig_edges, i)) ELSE ToSet(At(tet_faces, i))

\* The facet with the vertices S.
FacetWith(k, S) == CHOOSE i \in 0..(N_FACET(k) - 1) : FacetVertices(k, i) = S

\* The element of the state in the numbering sg: vnums and the facet orders
\* follow the vertices and the facets.
RenumberedVnums(sg) == [j \in 1..Len(sg) |-> Vn(sg[j])]

RenumberedOrderFacet(sg) ==
  [i1 \in 1..N_FACET(et) |->
     At(order_facet,
        FacetWith(et, {At(sg, v) : v \in FacetVertices(et, i1 - 1)}))]

\* The polynomial indices of a scalar factor: the pair (i, j) of a
\* DubinerBasis3 entry, the index itself otherwise; none for an entry no
\* evaluator wrote.
PolyIndices(p) ==
  IF ~p.ok THEN <<"indeterminate">>
  ELSE IF p.f = "DubinerBasis3" THEN DubinerPair(p.n, p.i[1], 0)
  ELSE p.i

\* A row of the element in the numbering sg, named by its building block,
\* its polynomial indices and the vertices of the state.
Geometric(r, sg) ==
  LET G(t) == [k \in 1..Len(t) |-> At(sg, t[k])]
  IN [blk |-> r.blk, lam |-> G(r.lam),
      sc |-> [k \in 1..Len(r.sc) |->
                [f |-> r.sc[k].f, idx |-> PolyIndices(r.sc[k]),
                 on |-> G(r.sc[k].on), mul |-> G(r.sc[k].mul)]]]

\* The numbering of the state itself.
Identity(n) == [j \in 1..n |-> j - 1]

IsFacetRow(r) == r.blk = "Sigma_gradv" \/ IsFaceRow(r)

\* The facet rows among rs, rows of the numbering sg, on the facet with the
\* vertices S of the state.
FacetRowsOn(rs, sg, S) ==
  {Geometric(rs[n], sg) : n \in {m \in 1..Len(rs) :
     /\ IsFacetRow(rs[m])
     /\ {At(sg, v) : v \in ToSet(rs[m].lam) \cup ToSet(rs[m].sc[1].on)} = S}}

\* C9: any two local numberings of one geometric element give the same rows
\* on every facet, a row named by its building block, its polynomial
\* indices and the ordered geometric vertices of its arguments.
C9_FacetRowsInvariant ==
  (pc = "done" /\ what = "Shape" /\ et \in VolumeKinds) =>
    \A sg \in Numberings(N_VERTEX(et)) :
      LET out == T_CalcShape(et, RenumberedOrderFacet(sg), order_inner, plus,
                             RenumberedVnums(sg), check_range)
      IN \A i \in 0..(N_FACET(et) - 1) :
           FacetRowsOn(out.rows, sg, FacetVertices(et, i))
             = FacetRowsOn(rows, Identity(N_VERTEX(et)), FacetVertices(et, i))

\* --- C10 ------------------------------------------------------------
\* C10: a divergence query on a surface shape raises "not available on
\* surface" and returns no numeric data.
C10_SurfaceDivRejected ==
  (pc = "done" /\ et \in SurfaceKinds /\ what = "DivShape") =>
    (err = "not available on surface" /\ rows = <<>>)

C10_Witness ==
  /\ pc = "done" /\ et = "SURF_TRIG" /\ what = "DivShape"
  /\ order_inner = 1
  /\ err = "not available on surface"

\* --- C11 ------------------------------------------------------------
\* C11: ComputeNDof of the class template itself (no override) raises an
\* unsupported-operation error to its caller: once it has returned, an
\* exception is pending and the caller has no DOF count to read.
C11_GenericRaises ==
  (et \in BaseKinds /\ pc = "ready") => err # "none"

\* --- C12 ------------------------------------------------------------
\* The triangle's enrichment branch throws inside its loop over
\* i <= order_inner-1.
C12_PlusThrows == et = "ET_TRIG" /\ plus /\ order_inner >= 1

\* C12 as stated: CalcMappedDivShape on a curved element raises "not
\* implemented yet!" with no row written; on a non-curved element it raises
\* nothing and writes one row per basis function (stated for the build
\* without range checks).
C12_AffineRaisesNothing ==
  (pc = "done" /\ what = "MappedDivShape" /\ ~check_range) =>
    IF ip.IsCurvedElement
      THEN err = "not implemented yet!" /\ rows = <<>>
      ELSE err = "none" /\ ndof = Written(Len(rows))

\* C12 amended: on a curved element CalcMappedDivShape raises "not
\* implemented yet!" with no row written.  On a non-curved element it never
\* raises that error; it raises what T_CalcShape raises: in a build without
\* range checks nothing, except "not working yet!" on the triangle with plus
\* and order_inner >= 1; whenever it raises nothing it has written ndof rows.
C12_MappedDivShape ==
  (pc = "done" /\ what = "MappedDivShape") =>
    IF ip.IsCurvedElement
      THEN err = "not implemented yet!" /\ rows = <<>>
      ELSE /\ err # "not implemented yet!"
           /\ ~check_range =>
                err = (IF C12_PlusThrows THEN "not working yet!" ELSE "none")
           /\ err = "none" => ndof = Written(Len(rows))

\* A curved call has raised on an element with rows to write, and an affine
\* call on the same kind of element has written them.
C12_Witness ==
  /\ pc = "done" /\ what = "MappedDivShape"
  /\ et = "ET_TET" /\ order_inner = 1
  /\ ip.IsCurvedElement /\ err = "not implemented yet!" /\ ndof.value > 0

\* --- C13 ------------------------------------------------------------
\* C13 as stated: on the triangle with plus set, evaluation fails with the
\* not-implemented error for every order_inner >= 0 and every facet-order
\* choice (stated for the build without range checks).
C13_PlusAlwaysFails ==
  (et = "ET_TRIG" /\ plus /\ pc = "done" /\ ~check_range) =>
    err = "not working yet!"

\* C13 amended: on the triangle with plus set, CalcShape and CalcDivShape
\* never complete normally when order_inner >= 1, and in a build without
\* range checks they then fail with "not working yet!"; with order_inner = 0
\* the loop of the plus branch has no pass, and in a build without range
\* checks the evaluation completes normally with ndof rows, the rows of the
\* same element with plus unset.  In a range-checked build the evaluation
\* ends with the range error after the edge rows, whatever order_inner is.
C13_PlusFailsFromOrderOne ==
  (et = "ET_TRIG" /\ plus /\ pc = "done") =>
    /\ order_inner >= 1 => err # "none"
    /\ (order_inner >= 1 /\ ~check_range) => err = "not working yet!"
    /\ (order_inner = 0 /\ ~check_range) =>
         /\ err = "none" /\ ndof = Written(Len(rows))
         /\ rows = T_CalcShape(et, order_facet, order_inner, FALSE, vnums,
                               check_range).rows
    /\ check_range =>
         /\ err = "RangeException"
         /\ Len(rows) = order_facet[1] + order_facet[2] + order_facet[3] + 3
         /\ RowsOf({"Sigma_gradv"}) = 0..(Len(rows) - 1)

\* An evaluation with plus set and order_inner = 0 has completed normally,
\* with a facet order of 1.
C13_Witness ==
  /\ et = "ET_TRIG" /\ plus /\ pc = "done" /\ ~check_range
  /\ order_inner = 0 /\ order_facet[1] = 1
  /\ err = "none" /\ ndof = Written(Len(rows))

\* --- C14 ------------------------------------------------------------
\* C14: on the tetrahedron with plus set, ComputeNDof or evaluation raises a
\* not-implemented error: no evaluation has completed normally with a DOF
\* count and rows (stated for the build without range checks).
C14_TetPlusRaises ==
  (et = "ET_TET" /\ plus /\ pc = "done" /\ ~check_range) => err # "none"

\* --- C15 ------------------------------------------------------------
\* C15: an order specification with a negative entry is rejected with an
\* error at the latest by ComputeNDof or evaluation: no evaluation on such
\* a specification has completed normally with a DOF count and rows.
C15_NegativeRejected ==
  (pc = "done" /\ \E i \in DOMAIN order_facet : order_facet[i] < 0) =>
    err # "none"

\* --- C16 ------------------------------------------------------------
\* C16: an evaluation step leaves order_facet, order_inner, plus, ndof,
\* order and vnums unchanged, and under every interleaving of the threads'
\* evaluation calls a call that has ended has written exactly the rows, and
\* raised exactly the exception, of the same call run alone.
C16_EvaluationReadOnly ==
  /\ [][pc = "ready" => UNCHANGED elem]_vars
  /\ [](\A t \in Threads :
          (thread[t].op # "idle" /\ thread[t].returned) =>
            /\ thread[t].shape = CallOutcome(thread[t].op, thread[t].arg).rows
            /\ thread[t].err = CallOutcome(thread[t].op, thread[t].arg).err)

\* Thread 1 has completed a CalcShape with all ndof rows while thread 2 is
\* in the middle of a CalcDivShape on the same element.
C16_Witness ==
  /\ thread[1].op = "CalcShape" /\ thread[1].returned
  /\ thread[1].err = "none" /\ ndof = Written(Len(thread[1].shape)) /\ ndof.value > 1
  /\ thread[2].op = "CalcDivShape" /\ ~thread[2].returned
  /\ thread[2].ii > 0 /\ thread[2].ii < ndof.value

\* --- C17 ------------------------------------------------------------
\* The values one sequential ComputeNDof call produces.
C17_Sequential == ComputeNDofOf(et, order_facet, order_inner, plus)

\* C17: for every interleaving of two ComputeNDof calls on an element whose
\* order specification is not changed, once both have returned ndof and
\* order are those of one sequential call, and after a call has returned a
\* reader never observes another ndof.
C17_ConcurrentComputeNDof ==
  /\ (\A t \in Threads : thread[t].op = "ComputeNDof" /\ thread[t].returned) =>
       (ndof = Written(C17_Sequential.ndof) /\ order = C17_Sequential.order)
  /\ (\E t \in Threads : thread[t].op = "ComputeNDof" /\ thread[t].returned) =>
       ndof = Written(C17_Sequential.ndof)

\* --- C18 ------------------------------------------------------------
\* The facet a facet row belongs to: the one whose vertices the row is
\* built on.
C18_FacetOf(r) ==
  LET on == ToSet(r.lam) \cup ToSet(r.sc[1].on)
  IN CHOOSE i \in 0..(N_FACET(et) - 1) :
       ToSet(At(IF et = "ET_TRIG" THEN trig_edges ELSE tet_faces, i)) = on

\* The family of a row of a volume element: its facet, or the interior type.
C18_Family(r) ==
  CASE IsFacetRow(r) -> <<"facet", C18_FacetOf(r)>>
    [] r.blk \in {"Sigma_gradu_v", "T_Id_v"} -> <<"type 1">>
    [] r.blk \in {"Curlgraduv_graducurlv", "T_Dl1_o_Dl2xDl3_v"} -> <<"type 2">>
    [] r.blk = "T_type4" -> <<"type 3">>
    [] OTHER -> <<"enrichment">>

\* The position of a family in the block order facet 0, 1, ..., type 1, 2, 3.
C18_Rank(fam) ==
  CASE fam[1] = "facet" -> fam[2]
    [] fam[1] = "type 1" -> N_FACET(et)
    [] fam[1] = "type 2" -> N_FACET(et) + 1
    [] fam[1] = "type 3" -> N_FACET(et) + 2
    [] OTHER -> N_FACET(et) + 3

C18_Rep(x, n) == [i \in 1..n |-> x]

\* The families of the rows of a complete evaluation, in emission order.
C18_Layout ==
  LET facets == Flatten([i1 \in 1..N_FACET(et) |->
        C18_Rep(<<"facet", i1 - 1>>,
                IF et = "ET_TRIG" THEN order_facet[i1] + 1
                ELSE (order_facet[i1] + 1) * (order_facet[i1] + 2))])
      oi == order_inner
      pass == Flatten(C18_Rep(<< <<"type 1">>, <<"type 2">> >>, (oi * (oi + 1)) \div 2))
  IN IF et = "ET_TRIG"
       THEN facets \o pass \o pass \o C18_Rep(<<"type 3">>, oi + 1)
       ELSE facets \o C18_Rep(<<"type 1">>, Binom(oi + 3, 3))
            \o C18_Rep(<<"type 2">>, 8 * Binom(oi + 2, 3))

C18_Evaluated == pc = "done" /\ et \in VolumeKinds /\ what \in {"Shape", "DivShape"}

\* C18 as stated: the rows come in blocks in the order facet 0, facet 1, ...,
\* all type 1 rows, all type 2 rows, the type 3 rows, enrichment rows, on the
\* triangle and on the tetrahedron: no row of a later block precedes a row
\* of an earlier one.
C18_ContiguousBlocks ==
  C18_Evaluated =>
    \A m, n \in 1..Len(rows) :
      m < n => C18_Rank(C18_Family(rows[m])) <= C18_Rank(C18_Family(rows[n]))

\* C18 amended: rows are emitted at the consecutive indices 0, 1, ...: first
\* the rows of facet 0, then facet 1, ... (block length depending on that
\* facet's order only); then on the tetrahedron all type 1 rows and then all
\* type 2 rows; on the triangle two passes over the index pairs, each pass
\* alternating one type 1 row and one type 2 row per pair, and then the
\* type 3 rows.  No enrichment row is ever emitted.  An evaluation that
\* raises has written a prefix of this sequence.
C18_BlockOrder ==
  C18_Evaluated =>
    /\ Len(rows) <= Len(C18_Layout)
    /\ \A n \in 1..Len(rows) : C18_Family(rows[n]) = C18_Layout[n]
    /\ err = "none" => Len(rows) = Len(C18_Layout)

\* A triangle evaluation has completed with interior rows of all three
\* types after facet blocks of different lengths.
C18_Witness ==
  /\ C18_Evaluated /\ et = "ET_TRIG" /\ err = "none"
  /\ order_inner = 1 /\ order_facet = <<0, 1, 0>>
  /\ Len(rows) = 10

\* --- C19 ------------------------------------------------------------
\* C19: in the tetrahedron evaluation every entry of ha read for a face,
\* l < (order_facet[fa]+1)*(order_facet[fa]+2)/2, lies within the array's
\* allocated size and was computed in this call: no range error is raised
\* and no face row is built on an entry beyond the array.
C19_FaceReadsInRange ==
  (pc = "done" /\ et = "ET_TET" /\ what \in {"Shape", "DivShape"}) =>
    /\ err # "RangeException"
    /\ \A n \in 1..Len(rows) : IsFaceRow(rows[n]) => rows[n].sc[1].ok

\* --- C20 ------------------------------------------------------------
\* A triangle evaluation with plus = false that has run in a build without
\* array range checks.
C20_Case == et = "ET_TRIG" /\ ~plus /\ pc = "done" /\ ~check_range

\* The same in a range-checked build.
C20_CaseChecked == et = "ET_TRIG" /\ ~plus /\ pc = "done" /\ check_range

\* The index pairs (i,j) of the type 1 / type 2 loops.
C20_Pairs == {ij \in (0..order_inner) \X (0..order_inner) :
                ij[1] + ij[2] <= order_inner - 1}

\* The interior rows of family blk built on u[i], v[j].
C20_RowsAt(blk, ij) ==
  {nr \in RowsOf({blk}) : rows[nr + 1].sc[1].i = <<ij[1]>>
                          /\ rows[nr + 1].sc[2].i = <<ij[2]>>}

\* The number of facet rows.
C20_NFacetRows == order_facet[1] + order_facet[2] + order_facet[3] + 3

\* C20 as stated: in the triangle evaluation with plus = false each index
\* pair (i,j), i + j <= order_inner-1, emits exactly one type 1 row and
\* exactly one type 2 row, order_inner*(order_inner+1)/2 rows of each
\* family, followed by exactly order_inner+1 type 3 rows.
C20_OneRowPerPair ==
  C20_Case =>
    /\ \A ij \in C20_Pairs :
         /\ Cardinality(C20_RowsAt("Sigma_gradu_v", ij)) = 1
         /\ Cardinality(C20_RowsAt("Curlgraduv_graducurlv", ij)) = 1
    /\ Cardinality(RowsOf({"Sigma_gradu_v"})) = (order_inner * (order_inner + 1)) \div 2
    /\ Cardinality(RowsOf({"Curlgraduv_graducurlv"})) = (order_inner * (order_inner + 1)) \div 2
    /\ Cardinality(RowsOf({"T_type4"})) = order_inner + 1

\* C20 amended: in a build without array range checks each index pair
\* (i,j), i + j <= order_inner-1, emits exactly two type 1 rows and exactly
\* two type 2 rows, one of each in each of the two passes (u on (le,lt), v
\* on ls; then u on (le,ls), v on lt), so there are
\* order_inner*(order_inner+1) rows of each family; they are followed by
\* exactly order_inner+1 type 3 rows, the last rows of the evaluation.  In a
\* range-checked build the evaluation ends with the range error after the
\* edge rows and emits no interior row.
C20_TwoRowsPerPair ==
  /\ C20_CaseChecked =>
       /\ err = "RangeException"
       /\ Len(rows) = C20_NFacetRows
       /\ RowsOf({"Sigma_gradu_v", "Curlgraduv_graducurlv", "T_type4"}) = {}
  /\ C20_Case =>
    LET np == (order_inner * (order_inner + 1)) \div 2
        pass1 == C20_NFacetRows..(C20_NFacetRows + 2 * np - 1)
        pass2 == (C20_NFacetRows + 2 * np)..(C20_NFacetRows + 4 * np - 1)
    IN /\ \A ij \in C20_Pairs : \A blk \in {"Sigma_gradu_v", "Curlgraduv_graducurlv"} :
            /\ Cardinality(C20_RowsAt(blk, ij)) = 2
            /\ Cardinality(C20_RowsAt(blk, ij) \cap pass1) = 1
            /\ Cardinality(C20_RowsAt(blk, ij) \cap pass2) = 1
       /\ \A nr \in pass1 : rows[nr + 1].sc[1].on = <<1, 2>> /\ rows[nr + 1].sc[2].on = <<0>>
       /\ \A nr \in pass2 : rows[nr + 1].sc[1].on = <<1, 0>> /\ rows[nr + 1].sc[2].on = <<2>>
       /\ Cardinality(RowsOf({"Sigma_gradu_v"})) = order_inner * (order_inner + 1)
       /\ Cardinality(RowsOf({"Curlgraduv_graducurlv"})) = order_inner * (order_inner + 1)
       /\ RowsOf({"T_type4"}) = (C20_NFacetRows + 4 * np)..(C20_NFacetRows + 4 * np + order_inner)
       /\ Len(rows) = C20_NFacetRows + 4 * np + order_inner + 1

\* A triangle evaluation with order_inner = 2, the pairs (0,0), (0,1) and
\* (1,0), has written its six type 1 rows, six type 2 rows and three type 3
\* rows, two rows of each family built on u[1], v[0].
C20_Witness ==
  /\ C20_Case /\ order_inner = 2 /\ err = "none"
  /\ C20_Pairs = {<<0, 0>>, <<0, 1>>, <<1, 0>>}
  /\ Cardinality(RowsOf({"Sigma_gradu_v"})) = 6
  /\ Cardinality(RowsOf({"Curlgraduv_graducurlv"})) = 6
  /\ Cardinality(C20_RowsAt("Sigma_gradu_v", <<1, 0>>)) = 2
  /\ Cardinality(RowsOf({"T_type4"})) = 3

\* --- C21 ------------------------------------------------------------
\* C21: in the triangle evaluation every evaluator call writes only indices
\* below the allocated size of the scratch array it fills (ha, u, v), for
\* every order_inner >= 0; no evaluation is stopped by a range error.
C21_ScratchLargeEnough ==
  (et = "ET_TRIG" /\ pc = "done") =>
    /\ \A k \in DOMAIN TrigFills(order_facet, order_inner) :
         LET c == TrigFills(order_facet, order_inner)[k]
         IN LastWritten(c.f, c.n) < c.size
    /\ err # "RangeException"

\* --- C22 ------------------------------------------------------------
\* The ComputeNDof formula of an order specification.
C22_Formula(k, of, oi, pl) ==
  CASE k = "ET_TRIG" ->
         [ndof |-> (of[1] + 1) + (of[2] + 1) + (of[3] + 1)
                   + (oi + 1) + 2 * (oi + 1) * oi + (IF pl THEN 2 * oi ELSE 0),
          order |-> Max3(of[1], of[2], max2(of[3], oi)) + (IF pl THEN 1 ELSE 0)]
    [] k = "ET_TET" ->
         [ndof |-> (of[1] + 1) * (of[1] + 2) + (of[2] + 1) * (of[2] + 2)
                   + (of[3] + 1) * (of[3] + 2) + (of[4] + 1) * (of[4] + 2)
                   + Binom(oi + 3, 3) + 8 * Binom(oi + 2, 3),
          order |-> max2(Max3(of[1], of[2], of[3]), max2(of[4], oi))]
    [] k = "SURF_SEGM" -> [ndof |-> oi + 1, order |-> oi]
    [] k = "SURF_TRIG" -> [ndof |-> (oi + 1) * (oi + 2), order |-> oi]

\* What C22 says of one step.  A step of SetOrderFacet(nr, o) changes
\* nothing but order_facet[nr]: not order_inner, ndof, order, plus, vnums or
\* another facet order.  A step of SetOrderInner(o) changes nothing but
\* order_inner.  A step of ComputeNDof leaves the order specification alone
\* and stores the formula of that specification, whatever ndof and order
\* held before.
C22_Step ==
  /\ \A nr \in ((0 - N_VERTEX(et)) - 2)..(N_FACET(et) + 1), o \in 0..MaxOrder :
       SetOrderFacet(nr, o) =>
         /\ order_inner' = order_inner
         /\ ndof' = ndof /\ order' = order /\ plus' = plus /\ vnums' = vnums
         /\ \A i \in DOMAIN order_facet :
              i # nr + 1 => order_facet'[i] = order_facet[i]
  /\ \A o \in 0..MaxOrder :
       SetOrderInner(o) =>
         /\ order_facet' = order_facet
         /\ ndof' = ndof /\ order' = order /\ plus' = plus /\ vnums' = vnums
  /\ ComputeNDof =>
       /\ ndof' = Written(C22_Formula(et, order_facet, order_inner, plus).ndof)
       /\ order' = C22_Formula(et, order_facet, order_inner, plus).order

\* C22: SetOrderFacet(nr, o) changes only order_facet[nr] and SetOrderInner
\* only order_inner, neither ndof, order, plus, vnums or another facet
\* order; ComputeNDof's result does not depend on the previous ndof and
\* order.  Hence after any sequence of setter and ComputeNDof calls ndof and
\* order are the formula of the specification as of the most recent
\* ComputeNDof.
C22_FrameEffects == [][C22_Step]_vars

\* --- C23 ------------------------------------------------------------
\* The number of non-enrichment rows of the triangle.
C23_N ==
  (order_facet[1] + 1) + (order_facet[2] + 1) + (order_facet[3] + 1)
  + (order_inner + 1) + 2 * (order_inner + 1) * order_inner

\* C23: when the triangle evaluation with plus set and order_inner >= 1
\* fails with "not working yet!", all N non-enrichment rows have been
\* written at the indices 0..N-1 and no row of index >= N: the buffer holds
\* exactly N rows, none of them an enrichment row, and fewer rows than the
\* ndof ComputeNDof reported (ndof = N + 2*order_inner).
C23_FailsAfterNRows ==
  (et = "ET_TRIG" /\ plus /\ order_inner >= 1 /\ pc = "done"
     /\ err = "not working yet!") =>
    /\ Len(rows) = C23_N
    /\ C23_N > 0
    /\ \A n \in 1..Len(rows) :
         rows[n].blk \in {"Sigma_gradv", "Sigma_gradu_v",
                          "Curlgraduv_graducurlv", "T_type4"}
    /\ Len(rows) < ndof.value
    /\ ndof = Written(C23_N + 2 * order_inner)

\* A triangle evaluation with plus set, order_inner = 1 and facet orders
\* 1, 0, 1 has failed: N = 11 rows written, ndof = 13.
C23_Witness ==
  /\ et = "ET_TRIG" /\ plus /\ pc = "done" /\ err = "not working yet!"
  /\ order_inner = 1 /\ order_facet = <<1, 0, 1>>
  /\ Len(rows) = 11 /\ ndof = Written(13)

====
